---- MODULE Spec2Model ----
(***************************************************************************)
(* Model of the mean-reversion backtester                                  *)
(* (deal-api/python/mean_reversion/backtester.py).                         *)
(*                                                                         *)
(* One behaviour is one call of MeanReversionBacktester.run() on a freshly *)
(* constructed instance: the fetch and the set-up, one step per iteration  *)
(* of the per-bar loop, the forced close after the loop and the call of    *)
(* _calculate_results (Spec); SpecTwice lets run() be called a second time *)
(* on the same instance and series.  SpecIndicators is one call of         *)
(* calculate_zscore or calculate_half_life (indicators.py) on its own, and *)
(* SpecKalman is two KalmanFilter instances constructed and updated in any *)
(* order.  SpecHandler is one invocation of lambda_handler, of             *)
(* lambda_handler.py or of package/lambda_handler.py, on an event.         *)
(*                                                                         *)
(* Numbers.  Prices are positive integers.  Every float the code derives   *)
(* from them by + - * / is an exact fraction <<numerator, denominator>>    *)
(* with a positive denominator, kept in lowest terms.  A z-score divides   *)
(* by a square root, so it is kept as its sign and its square; that is     *)
(* enough to decide every comparison the code makes on it (isnan, >= 0,    *)
(* <= 0, < -threshold, > threshold).                                       *)
(*                                                                         *)
(* Time.  dates[i] is the timestamp of bar i; timestamps increase strictly *)
(* with the bar index, so the model writes the bar index for the date and  *)
(* NoDate for the empty string.                                            *)
(***************************************************************************)
EXTENDS Integers, Sequences, FiniteSets, TLC

\* ------------------------------------------------------------------ bounds

\* The largest number of bars the loop simulates in a run of the model.
MaxBars == 4

\* The closing prices a bar can have.
Prices == {10, 11, 12, 22}

\* ---------------------------------------------------------- configuration

\* __init__: zscore_lookback (the model runs the strategy with a short window).
zscore_lookback == 3

\* __init__: zscore_threshold, as a fraction.
zscore_threshold == <<1, 1>>

\* __init__: stop_loss_pct = 0.05 and take_profit_pct = 0.10, as fractions.
stop_loss_pct == <<5, 100>>

take_profit_pct == <<10, 100>>

\* __init__: the values of max_holding_bars the model is run with.
MaxHoldingChoices == {1, 2}

\* __init__: the values of use_half_life_filter and half_life_max the model
\* is run with: the defaults (filter on, 50), the filter on with the ceiling
\* of the half-life and with one bar more, and the filter off.
RegimeChoices == {<<TRUE, 50>>, <<TRUE, 500>>, <<TRUE, 501>>, <<FALSE, 50>>}

\* run(): the warm-up added to the lookback, start_bar = zscore_lookback + 10.
WarmUp == 10

start_bar == zscore_lookback + WarmUp

\* The first bar whose close the loop reads: the oldest bar of the rolling
\* window of bar start_bar.
first_bar == start_bar - zscore_lookback + 1

NoDate == -1

\* --------------------------------------------------------------- fractions

Abs(x) == IF x < 0 THEN -x ELSE x

RECURSIVE GCD(_, _)
GCD(a, b) == IF b = 0 THEN a ELSE GCD(b, a % b)

\* A fraction in lowest terms with a positive denominator.
Norm(r) ==
    LET g == GCD(Abs(r[1]), Abs(r[2]))
        s == IF r[2] < 0 THEN -1 ELSE 1
    IN  IF g = 0 THEN <<0, 1>> ELSE <<(s * r[1]) \div g, (s * r[2]) \div g>>

\* The product and the sum cancel common factors before they multiply, so
\* that intermediate values stay small.
RatMul(a, b) ==
    LET x == Norm(<<a[1], b[2]>>)
        y == Norm(<<b[1], a[2]>>)
    IN  Norm(<<x[1] * y[1], x[2] * y[2]>>)

RatAdd(a, b) ==
    LET g == GCD(a[2], b[2])
    IN  Norm(<<a[1] * (b[2] \div g) + b[1] * (a[2] \div g), (a[2] \div g) * b[2]>>)

RatNeg(a) == <<-a[1], a[2]>>

RatLE(a, b) ==
    LET g == GCD(a[2], b[2])
    IN  a[1] * (b[2] \div g) <= b[1] * (a[2] \div g)

RatLT(a, b) ==
    LET g == GCD(a[2], b[2])
    IN  a[1] * (b[2] \div g) < b[1] * (a[2] \div g)

One == <<1, 1>>

Zero == <<0, 1>>

Last(s) == s[Len(s)]

\* The sum of the first k numbers of s, and of their squares.
RECURSIVE SumTo(_, _)
SumTo(s, k) == IF k = 0 THEN 0 ELSE SumTo(s, k - 1) + s[k]

RECURSIVE SumSquaresTo(_, _)
SumSquaresTo(s, k) == IF k = 0 THEN 0 ELSE SumSquaresTo(s, k - 1) + s[k] * s[k]

SeqSum(s) == SumTo(s, Len(s))

\* ----------------------------------------------------------------- z-score

\* _calculate_zscore_series at one bar: w is the rolling window, the
\* zscore_lookback closes that end at the bar.  rolling_mean = S / L,
\* rolling_std = sqrt(sum((x - mean)^2) / (L - 1)) (pandas' sample std), and
\* z = (close - rolling_mean) / rolling_std.  With S the sum and Q the sum of
\* squares of the window, close - mean = (L*close - S) / L and
\* std^2 = (L*Q - S^2) / (L*(L - 1)), so
\*   sign(z) = sign(L*close - S),
\*   z^2     = (L*close - S)^2 * (L - 1) / (L * (L*Q - S^2)).
\* A window of equal closes has std = 0 and close - mean = 0: z = 0/0 = NaN.
ZScore(w) ==
    LET L == Len(w)
        S == SeqSum(w)
        Q == SumSquaresTo(w, L)
        d == L * Last(w) - S
        v == L * Q - S * S
    IN  IF v = 0
        THEN [nan |-> TRUE, sgn |-> 0, sq |-> Zero]
        ELSE [nan |-> FALSE,
              sgn |-> IF d > 0 THEN 1 ELSE IF d < 0 THEN -1 ELSE 0,
              sq  |-> Norm(<<d * d * (L - 1), L * v>>)]

\* A test that takes no z-score for undefined.
IsNaNNever(z) == FALSE

\* np.isnan(z)
IsNaN(z) == z.nan

\* z >= 0 and z <= 0 (false of a NaN, as every comparison with a NaN is)
ZGe0(z) == ~z.nan /\ z.sgn >= 0

ZLe0(z) == ~z.nan /\ z.sgn <= 0

\* z > t and z < -t for a fraction t > 0
ZGt(z, t) == ~z.nan /\ z.sgn = 1 /\ RatLT(RatMul(t, t), z.sq)

ZLtNeg(z, t) == ~z.nan /\ z.sgn = -1 /\ RatLT(RatMul(t, t), z.sq)

\* ------------------------------------------------------------------- state

VARIABLES
    pc,                   \* where run() is: "init", "loop", "results", "done", "raised"
    max_holding_bars,     \* self.max_holding_bars
    use_half_life_filter, \* self.use_half_life_filter
    half_life_max,        \* self.half_life_max
    n,                    \* len(prices), the number of bars fetch_ohlcv returned
    prices,               \* the closes of bars first_bar .. i-1, in order
    half_life,            \* hl_result['half_life']
    regime_ok,
    position,             \* Position: "FLAT", "LONG", "SHORT"
    entry_price,
    entry_date,
    entry_bar,
    equity,               \* the list equity
    trades,               \* self.trades
    i,                    \* the loop variable: the next bar to simulate
    entries,              \* history: the entries made, [bar, side], in order
    result,               \* what run() returned: NoResult or a BacktestResult
    first,                \* history: the first run, once run() is called again
    call,                 \* the last call of an indicator function and its outcome
    filters,              \* the KalmanFilter instances: their attributes
    observed,             \* history: the observations each instance was updated with
    returned,             \* the last call of update(): the instance and the value returned
    handler_module,       \* the lambda_handler module that is loaded, if one is
    API_KEY,              \* the module global API_KEY of lambda_handler.py
    event,                \* the event lambda_handler was invoked with
    answer                \* what the invocation gave: a response or an exception

cfg == <<max_holding_bars, use_half_life_filter, half_life_max>>

vars == <<pc, max_holding_bars, use_half_life_filter, half_life_max, n, prices,
          half_life, regime_ok, position, entry_price, entry_date, entry_bar,
          equity, trades, i, entries, result, first, call, filters, observed,
          returned, handler_module, API_KEY, event, answer>>

\* The state of a run of the backtester, and the state outside it.
run_vars == <<pc, max_holding_bars, use_half_life_filter, half_life_max, n, prices,
              half_life, regime_ok, position, entry_price, entry_date, entry_bar,
              equity, trades, i, entries, result, first>>

handler_vars == <<handler_module, API_KEY, event, answer>>

lib_vars == <<call, filters, observed, returned, handler_vars>>

kalman_vars == <<filters, observed, returned>>

NoResult == [total_trades |-> -1]

NoCall == [fn |-> "none"]

NoFirst == [n |-> -1]

\* The KalmanFilter instances of the model.
Filters == {1, 2}

NotConstructed == [made |-> FALSE]

NoUpdate == [filter |-> 0]

NotLoaded == "none"

NoEvent == [invoked |-> FALSE]

NoAnswer == [kind |-> "none"]

\* The close of bar b (first_bar <= b) in the closes ps.
PriceAt(ps, b) == ps[b - first_bar + 1]

\* The rolling window of bar b in the closes ps.
Window(ps, b) ==
    SubSeq(ps, b - first_bar + 1 - (zscore_lookback - 1), b - first_bar + 1)

\* zscore_series[b]
ZAt(ps, b) == ZScore(Window(ps, b))

\* --------------------------------------------------------- run(): helpers

\* The regime decision with the half-life allowed to equal half_life_max.
RegimeOkInclusive(use, hl, hlmax) == IF use THEN hl <= hlmax ELSE TRUE

\* regime_ok (lines 121-124): the half-life is looked at only when the filter
\* is on, and it has to be strictly below half_life_max.
RegimeOk(use, hl, hlmax) == IF use THEN hl < hlmax ELSE TRUE

\* pnl_pct (lines 155-158 and 226-229)
PnlPct(pos, current_price, eprice) ==
    IF pos = "LONG"
    THEN Norm(<<current_price - eprice, eprice>>)
    ELSE Norm(<<eprice - current_price, eprice>>)

\* pnl (lines 188 and 237)
Pnl(pos, current_price, eprice) ==
    IF pos = "LONG" THEN current_price - eprice ELSE eprice - current_price

\* The exit conditions with the stop loss and the take profit looked at before
\* the zero cross.
ExitReasonStopFirst(pos, z, pnl_pct, bars_held, max_hold) ==
    IF RatLE(pnl_pct, RatNeg(stop_loss_pct)) THEN "Stop loss"
    ELSE IF RatLE(take_profit_pct, pnl_pct) THEN "Take profit"
    ELSE IF pos = "LONG" /\ ZGe0(z) THEN "Z crossed zero"
    ELSE IF pos = "SHORT" /\ ZLe0(z) THEN "Z crossed zero"
    ELSE IF bars_held >= max_hold THEN "Max holding time"
    ELSE ""

\* The exit conditions without the stop loss.
ExitReasonNoStopLoss(pos, z, pnl_pct, bars_held, max_hold) ==
    IF pos = "LONG" /\ ZGe0(z) THEN "Z crossed zero"
    ELSE IF pos = "SHORT" /\ ZLe0(z) THEN "Z crossed zero"
    ELSE IF RatLE(take_profit_pct, pnl_pct) THEN "Take profit"
    ELSE IF bars_held >= max_hold THEN "Max holding time"
    ELSE ""

\* The exit conditions (lines 160-178): the exit_reason, "" when exit_signal
\* stays False.
ExitReason(pos, z, pnl_pct, bars_held, max_hold) ==
    IF pos = "LONG" /\ ZGe0(z) THEN "Z crossed zero"
    ELSE IF pos = "SHORT" /\ ZLe0(z) THEN "Z crossed zero"
    ELSE IF RatLE(pnl_pct, RatNeg(stop_loss_pct)) THEN "Stop loss"
    ELSE IF RatLE(take_profit_pct, pnl_pct) THEN "Take profit"
    ELSE IF bars_held >= max_hold THEN "Max holding time"
    ELSE ""

\* The entry logic with the two sides exchanged.
EntrySideSwapped(pos, ok, z) ==
    IF pos = "FLAT" /\ ok
    THEN IF ZLtNeg(z, zscore_threshold) THEN "SHORT"
         ELSE IF ZGt(z, zscore_threshold) THEN "LONG"
         ELSE pos
    ELSE pos

\* The entry logic (lines 203-216): the position after it, given the
\* position before it.
EntrySide(pos, ok, z) ==
    IF pos = "FLAT" /\ ok
    THEN IF ZLtNeg(z, zscore_threshold) THEN "LONG"
         ELSE IF ZGt(z, zscore_threshold) THEN "SHORT"
         ELSE pos
    ELSE pos

\* Trade(...) (lines 182-192 and 231-241)
MakeTrade(edate, xdate, eprice, xprice, pos, bars_held, reason) ==
    [entry_date  |-> edate,
     exit_date   |-> xdate,
     entry_price |-> eprice,
     exit_price  |-> xprice,
     position    |-> IF pos = "LONG" THEN "LONG" ELSE "SHORT",
     pnl         |-> Pnl(pos, xprice, eprice),
     pnl_pct     |-> PnlPct(pos, xprice, eprice),
     bars_held   |-> bars_held,
     exit_reason |-> reason]

\* The position after an exit bar that resets and then falls through to the
\* entry logic (no continue).
PositionAfterExitFallThrough(ok, z) == EntrySide("FLAT", ok, z)

\* The position after a bar on which a trade was closed (lines 198-200): the
\* reset, and the continue that skips the entry logic.
PositionAfterExit(ok, z) == "FLAT"

\* The equity list after a bar with no exit (lines 218-220).
TrackEquity(eq, bar) ==
    IF Len(eq) <= bar - start_bar THEN Append(eq, Last(eq)) ELSE eq

\* The equity list after a bar with an undefined z-score (line 147).
CarryEquity(eq) == Append(eq, Last(eq))

\* The equity list after an exit that adds the percentage instead of
\* compounding it.
ExitEquityAdditive(eq, pnl_pct) == Append(eq, RatAdd(Last(eq), pnl_pct))

\* The equity list after an exit (line 196).
ExitEquity(eq, pnl_pct) == Append(eq, RatMul(Last(eq), RatAdd(One, pnl_pct)))

\* ------------------------------------------------------ _calculate_results

RatSub(a, b) == RatAdd(a, RatNeg(b))

\* a / b for b # 0
RatDiv(a, b) == RatMul(a, Norm(<<b[2], b[1]>>))

RatMax(a, b) == IF RatLE(a, b) THEN b ELSE a

\* The sum of the first k fractions of s.
RECURSIVE RatSum(_, _)
RatSum(s, k) == IF k = 0 THEN Zero ELSE RatAdd(RatSum(s, k - 1), s[k])

\* max_drawdown (lines 285-288), in one pass over equity[k..]: peak is
\* np.maximum.accumulate up to k - 1 and best the largest drawdown so far.
\* The list equity starts with 1.0, so the peak is never below 1.
RECURSIVE DrawdownFrom(_, _, _, _)
DrawdownFrom(eq, k, peak, best) ==
    IF k > Len(eq)
    THEN best
    ELSE LET pk == RatMax(peak, eq[k])
             dd == RatDiv(RatSub(pk, eq[k]), pk)
         IN  DrawdownFrom(eq, k + 1, pk, RatMax(best, dd))

MaxDrawdown(eq) == DrawdownFrom(eq, 2, eq[1], Zero)

\* np.diff(equity_arr) / equity_arr[:-1], its first k entries
RECURSIVE ReturnsUpTo(_, _)
ReturnsUpTo(eq, k) ==
    IF k = 0
    THEN <<>>
    ELSE Append(ReturnsUpTo(eq, k - 1), RatDiv(RatSub(eq[k + 1], eq[k]), eq[k]))

\* returns (line 291)
Returns(eq) == IF Len(eq) > 1 THEN ReturnsUpTo(eq, Len(eq) - 1) ELSE <<Zero>>

RatMean(s) == RatDiv(RatSum(s, Len(s)), <<Len(s), 1>>)

\* sum((s - m)^2) over the first k entries of s
RECURSIVE SumSquaredDeviations(_, _, _)
SumSquaredDeviations(s, m, k) ==
    IF k = 0
    THEN Zero
    ELSE RatAdd(SumSquaredDeviations(s, m, k - 1),
                RatMul(RatSub(s[k], m), RatSub(s[k], m)))

\* np.std(s)^2, the population variance
RatVar(s, m) == RatDiv(SumSquaredDeviations(s, m, Len(s)), <<Len(s), 1>>)

\* sharpe (line 292) = mean / std * sqrt(252) with np.std the population
\* standard deviation, kept as its sign and its square; 0 when the standard
\* deviation is not above 0 (also when a return is not a number, a division
\* by an equity of 0, which makes np.std(returns) > 0 false).
SharpeZero == [sgn |-> 0, sq |-> Zero]

AnnualBars == 252

SharpeOf(m, v) ==
    IF v[1] > 0
    THEN [sgn |-> IF m[1] > 0 THEN 1 ELSE IF m[1] < 0 THEN -1 ELSE 0,
          sq  |-> RatMul(RatDiv(RatMul(m, m), v), <<AnnualBars, 1>>)]
    ELSE SharpeZero

SharpeOfReturns(rs, m) == SharpeOf(m, RatVar(rs, m))

Sharpe(eq) ==
    IF \E k \in 1..(Len(eq) - 1) : eq[k][1] = 0
    THEN SharpeZero
    ELSE SharpeOfReturns(Returns(eq), RatMean(Returns(eq)))

\* The sum of field f over the first k trades of ts.
RECURSIVE FieldSum(_, _, _)
FieldSum(ts, f, k) == IF k = 0 THEN 0 ELSE FieldSum(ts, f, k - 1) + ts[k][f]

RECURSIVE PnlPctSum(_, _)
PnlPctSum(ts, k) == IF k = 0 THEN Zero ELSE RatAdd(PnlPctSum(ts, k - 1), ts[k].pnl_pct)

\* The zeroed result with a profit factor of 1.
ZeroResultUnitFactor ==
    [total_trades      |-> 0,
     winning_trades    |-> 0,
     losing_trades     |-> 0,
     win_rate          |-> Zero,
     total_pnl         |-> 0,
     total_pnl_pct     |-> Zero,
     avg_pnl_per_trade |-> Zero,
     max_drawdown      |-> Zero,
     sharpe_ratio      |-> SharpeZero,
     profit_factor     |-> One,
     avg_bars_held     |-> Zero,
     trades            |-> <<>>]

\* The BacktestResult of a run without trades (lines 257-271).
ZeroResult ==
    [total_trades      |-> 0,
     winning_trades    |-> 0,
     losing_trades     |-> 0,
     win_rate          |-> Zero,
     total_pnl         |-> 0,
     total_pnl_pct     |-> Zero,
     avg_pnl_per_trade |-> Zero,
     max_drawdown      |-> Zero,
     sharpe_ratio      |-> SharpeZero,
     profit_factor     |-> Zero,
     avg_bars_held     |-> Zero,
     trades            |-> <<>>]

\* winning and losing (lines 273-274)
Winning(ts) == SelectSeq(ts, LAMBDA t : t.pnl > 0)

\* The losing trades without the break-even ones.
LosingStrict(ts) == SelectSeq(ts, LAMBDA t : t.pnl < 0)

Losing(ts) == SelectSeq(ts, LAMBDA t : t.pnl <= 0)

\* gross_profit (line 280)
GrossProfit(winning) ==
    IF winning # <<>> THEN FieldSum(winning, "pnl", Len(winning)) ELSE 0

\* The gross loss with 0 for a log without losing trades.
GrossLossNoDefault(losing) ==
    IF losing # <<>> THEN Abs(FieldSum(losing, "pnl", Len(losing))) ELSE 0

\* gross_loss (line 281)
GrossLoss(losing) ==
    IF losing # <<>> THEN Abs(FieldSum(losing, "pnl", Len(losing))) ELSE 1

\* profit_factor (line 282)
ProfitFactor(gross_profit, gross_loss) ==
    IF gross_loss > 0 THEN Norm(<<gross_profit, gross_loss>>) ELSE Zero

\* _calculate_results(equity) (lines 255-307) on the trade log ts.
CalculateResults(ts, eq) ==
    IF ts = <<>>
    THEN ZeroResult
    ELSE LET winning   == Winning(ts)
             losing    == Losing(ts)
             total_pnl == FieldSum(ts, "pnl", Len(ts))
         IN  [total_trades      |-> Len(ts),
              winning_trades    |-> Len(winning),
              losing_trades     |-> Len(losing),
              win_rate          |-> Norm(<<Len(winning), Len(ts)>>),
              total_pnl         |-> total_pnl,
              total_pnl_pct     |-> PnlPctSum(ts, Len(ts)),
              avg_pnl_per_trade |-> Norm(<<total_pnl, Len(ts)>>),
              max_drawdown      |-> MaxDrawdown(eq),
              sharpe_ratio      |-> Sharpe(eq),
              profit_factor     |-> ProfitFactor(GrossProfit(winning), GrossLoss(losing)),
              avg_bars_held     |-> Norm(<<FieldSum(ts, "bars_held", Len(ts)), Len(ts)>>),
              trades            |-> ts]

\* ------------------------------------------------------------------ run()

\* calculate_half_life(prices) clamps what it returns to this ceiling
\* (indicators.py, min(half_life, 500)).
HalfLifeCeiling == 500

\* hl_result['half_life'] of the call in run().  run() hands
\* calculate_half_life a pandas Series: log_prices[1:] - log_prices[:-1] is
\* then a subtraction of two Series, which pandas aligns on the index labels,
\* so every label the two slices share gives log_prices[k] - log_prices[k] = 0
\* and the two end labels give NaN, which np.mean and np.sum skip.  The
\* covariance is 0, beta is 0 (also when the variance is 0), the half-life is
\* infinite and the ceiling is returned, whatever the prices are.
SeriesHalfLife == HalfLifeCeiling

\* What fetch_ohlcv returns: any series in the first run, the series of the
\* first run again when run() is called a second time.
FetchedLengths ==
    IF first = NoFirst THEN 0..(start_bar + MaxBars) ELSE {first.n}

FetchedCloses(b) ==
    IF first = NoFirst THEN Prices ELSE {PriceAt(first.prices, b)}

\* The trade log left as it is at the start of a run.
KeepTrades(ts) == ts

\* self.trades = [] (line 135)
ResetTrades(ts) == <<>>

Init ==
    /\ pc = "init"
    /\ max_holding_bars \in MaxHoldingChoices
    /\ \E choice \in RegimeChoices :
         /\ use_half_life_filter = choice[1]
         /\ half_life_max = choice[2]
    /\ n = 0
    /\ prices = <<>>
    /\ half_life = 0
    /\ regime_ok = TRUE
    /\ position = "FLAT"
    /\ entry_price = 0
    /\ entry_date = NoDate
    /\ entry_bar = 0
    /\ equity = <<>>
    /\ trades = <<>>
    /\ i = 0
    /\ entries = <<>>
    /\ result = NoResult
    /\ first = NoFirst
    /\ call = NoCall
    /\ filters = [k \in Filters |-> NotConstructed]
    /\ observed = [k \in Filters |-> <<>>]
    /\ returned = NoUpdate
    /\ handler_module = NotLoaded
    /\ API_KEY = ""
    /\ event = NoEvent
    /\ answer = NoAnswer

\* The fetch of no bar with the check of df.empty left out: run() goes on to
\* the set-up and the loop with an empty series.
RunNoDataUnchecked ==
    /\ UNCHANGED <<first, lib_vars>>
    /\ pc = "init"
    /\ 0 \in FetchedLengths
    /\ n' = 0
    /\ prices' = <<>>
    /\ half_life' = HalfLifeCeiling
    /\ regime_ok' = RegimeOk(use_half_life_filter, half_life', half_life_max)
    /\ equity' = <<One>>
    /\ trades' = <<>>
    /\ i' = start_bar
    /\ pc' = "loop"
    /\ UNCHANGED <<cfg, position, entry_price, entry_date, entry_bar, entries, result>>

\* run(), lines 108-111: fetch_ohlcv returns no bar and run() raises ValueError.
RunNoData ==
    /\ UNCHANGED <<first, lib_vars>>
    /\ pc = "init"
    /\ 0 \in FetchedLengths
    /\ n' = 0
    /\ pc' = "raised"
    /\ UNCHANGED <<cfg, prices, half_life, regime_ok, position, entry_price,
                   entry_date, entry_bar, equity, trades, i, entries, result>>

\* run(), lines 108-138: fetch_ohlcv returns len >= 1 bars; the indicators, the
\* regime decision and the trading state.  The closes of the bars before
\* first_bar are read by nothing but calculate_half_life; the closes from
\* first_bar on are drawn when the loop first reads them, the zscore_lookback - 1
\* closes before start_bar here.
RunStart ==
    /\ UNCHANGED <<first, lib_vars>>
    /\ pc = "init"
    /\ \E len \in FetchedLengths \ {0} :
         /\ n' = len
         /\ IF len > start_bar
            THEN \E ps \in [1..(zscore_lookback - 1) -> Prices] :
                   /\ \A k \in 1..(zscore_lookback - 1) :
                          ps[k] \in FetchedCloses(first_bar + k - 1)
                   /\ prices' = ps
            ELSE prices' = <<>>
    /\ half_life' = SeriesHalfLife
    /\ regime_ok' = RegimeOk(use_half_life_filter, half_life', half_life_max)
    /\ position' = "FLAT"
    /\ entry_price' = 0
    /\ entry_date' = NoDate
    /\ entry_bar' = 0
    /\ equity' = <<One>>
    /\ trades' = ResetTrades(trades)
    /\ i' = start_bar
    /\ pc' = "loop"
    /\ UNCHANGED <<cfg, entries, result>>

\* One iteration of the loop (lines 140-220), on bar i.
Bar ==
    /\ UNCHANGED <<first, lib_vars>>
    /\ pc = "loop"
    /\ i < n
    /\ \E current_price \in FetchedCloses(i) :
         LET ps        == Append(prices, current_price)
             z         == ZAt(ps, i)
             bars_held == i - entry_bar
             pnl_pct   == PnlPct(position, current_price, entry_price)
             reason    == ExitReason(position, z, pnl_pct, bars_held, max_holding_bars)
             entered   == EntrySide(position, regime_ok, z)
         IN  /\ prices' = ps
             /\ IF IsNaN(z)
                THEN /\ equity' = CarryEquity(equity)
                     /\ UNCHANGED <<position, entry_price, entry_date, entry_bar,
                                    trades, entries>>
                ELSE IF position # "FLAT" /\ reason # ""
                THEN /\ trades' = Append(trades,
                                     MakeTrade(entry_date, i, entry_price, current_price,
                                               position, bars_held, reason))
                     /\ equity' = ExitEquity(equity, pnl_pct)
                     /\ position' = PositionAfterExit(regime_ok, z)
                     /\ UNCHANGED <<entry_price, entry_date, entry_bar, entries>>
                ELSE /\ position' = entered
                     /\ IF entered # position
                        THEN /\ entry_price' = current_price
                             /\ entry_date' = i
                             /\ entry_bar' = i
                             /\ entries' = Append(entries, [bar |-> i, side |-> entered])
                        ELSE UNCHANGED <<entry_price, entry_date, entry_bar, entries>>
                     /\ equity' = TrackEquity(equity, i)
                     /\ UNCHANGED trades
    /\ i' = i + 1
    /\ UNCHANGED <<pc, cfg, n, half_life, regime_ok, result>>

\* The end of the loop without the forced close.
EndOfDataNoClose ==
    /\ UNCHANGED <<first, lib_vars>>
    /\ pc = "loop"
    /\ i >= n
    /\ pc' = "results"
    /\ UNCHANGED <<cfg, n, prices, half_life, regime_ok, position, entry_price,
                   entry_date, entry_bar, equity, trades, i, entries, result>>

\* After the loop (lines 222-242): a position that is still open is closed at
\* the last bar.  position is not assigned here.
EndOfData ==
    /\ UNCHANGED <<first, lib_vars>>
    /\ pc = "loop"
    /\ i >= n
    /\ IF position # "FLAT"
       THEN trades' = Append(trades,
                        MakeTrade(entry_date, n - 1, entry_price, PriceAt(prices, n - 1),
                                  position, n - 1 - entry_bar, "End of data"))
       ELSE UNCHANGED trades
    /\ pc' = "results"
    /\ UNCHANGED <<cfg, n, prices, half_life, regime_ok, position, entry_price,
                   entry_date, entry_bar, equity, i, entries, result>>

\* return self._calculate_results(equity) (line 245)
Return ==
    /\ UNCHANGED <<first, lib_vars>>
    /\ pc = "results"
    /\ result' = CalculateResults(trades, equity)
    /\ pc' = "done"
    /\ UNCHANGED <<cfg, n, prices, half_life, regime_ok, position, entry_price,
                   entry_date, entry_bar, equity, trades, i, entries>>

Next == RunNoData \/ RunStart \/ Bar \/ EndOfData \/ Return

Spec == Init /\ [][Next]_vars

\* run() is called a second time on the same instance, and fetch_ohlcv
\* returns the same series: the attributes of the instance are as the first
\* run left them and the record of the run starts again.
RunAgain ==
    /\ pc \in {"done", "raised"}
    /\ first = NoFirst
    /\ first' = [n |-> n, prices |-> prices, outcome |-> pc, result |-> result,
                 trades |-> trades, equity |-> equity]
    /\ pc' = "init"
    /\ entries' = <<>>
    /\ result' = NoResult
    /\ UNCHANGED <<cfg, n, prices, half_life, regime_ok, position, entry_price,
                   entry_date, entry_bar, equity, trades, i, lib_vars>>

\* Two runs of one instance, with the regime filter off and the longer of
\* the holding times.
InitTwice ==
    /\ Init
    /\ ~use_half_life_filter
    /\ max_holding_bars = 2

NextTwice == Next \/ RunAgain

SpecTwice == InitTwice /\ [][NextTwice]_vars

\* ------------------------------------------- indicators.py: the functions

\* The longest series an indicator function is called with.
MaxSeries == 4

\* The lookbacks the indicator functions are called with.
ZscoreLookbacks == {2, 3}

HalfLifeLookbacks == {2, 4}

\* calculate_half_life reads its prices through np.log only.  beta, a ratio of
\* a covariance and a variance of log-prices, does not change when every
\* log-price is shifted or scaled by the same amount, so the model draws the
\* log-prices, in whole units.
LogPrices == {0, 1, 200, 300}

NaN == [nan |-> TRUE, val |-> Zero]

Num(r) == [nan |-> FALSE, val |-> r]

\* prices[-lookback:]
Trailing(s, lookback) ==
    SubSeq(s, IF Len(s) > lookback THEN Len(s) - lookback + 1 ELSE 1, Len(s))

\* The signal of calculate_zscore (lines 94-99); a NaN compares false.
Signal(z) ==
    IF ZGt(z, <<2, 1>>) THEN "OVERBOUGHT"
    ELSE IF ZLtNeg(z, <<2, 1>>) THEN "OVERSOLD"
    ELSE "NEUTRAL"

\* calculate_zscore(prices, lookback) (package/indicators.py, lines 72-106).
\* rolling(window=lookback) gives NaN until lookback values are there, so a
\* series shorter than the lookback has a NaN mean, std and z-score; .iloc[-1]
\* of an empty series raises IndexError.  std is carried as its square.
CalculateZscore(s, lookback) ==
    IF s = <<>>
    THEN [raised |-> TRUE, error |-> "IndexError"]
    ELSE IF Len(s) < lookback
    THEN [raised |-> FALSE,
          zscore |-> [nan |-> TRUE, sgn |-> 0, sq |-> Zero],
          signal |-> "NEUTRAL",
          mean   |-> NaN,
          var    |-> NaN]
    ELSE LET w == Trailing(s, lookback)
             L == Len(w)
             z == ZScore(w)
         IN  [raised |-> FALSE,
              zscore |-> z,
              signal |-> Signal(z),
              mean   |-> Num(Norm(<<SeqSum(w), L>>)),
              var    |-> IF L > 1
                         THEN Num(Norm(<<L * SumSquaresTo(w, L) - SeqSum(w) * SeqSum(w),
                                         L * (L - 1)>>))
                         ELSE NaN]

\* lag_y = log_prices[:-1] (line 20)
LagY(lp) == SubSeq(lp, 1, Len(lp) - 1)

\* delta_y = log_prices[1:] - log_prices[:-1] (line 17).  On a numpy array or
\* a list this is the difference of neighbours.  On a pandas Series the two
\* slices are aligned on their index labels before they are subtracted: every
\* label they share gives log_prices[k] - log_prices[k] = 0 and the two end
\* labels give NaN, which the sums and means skip.
DeltaY(kind, lp) ==
    [k \in 1..(Len(lp) - 1) |-> IF kind = "Series" THEN 0 ELSE lp[k + 1] - lp[k]]

\* np.mean of a sequence of whole numbers (NaN with a warning when it is
\* empty; the sums over an empty sequence that use it are 0).
Mean(s) == Norm(<<SeqSum(s), Len(s)>>)

\* sum((a - ma) * (b - mb)) over the first k entries (lines 28 and 29)
RECURSIVE CrossSum(_, _, _, _, _)
CrossSum(a, ma, b, mb, k) ==
    IF k = 0
    THEN Zero
    ELSE RatAdd(CrossSum(a, ma, b, mb, k - 1),
                RatMul(RatSub(<<a[k], 1>>, ma), RatSub(<<b[k], 1>>, mb)))

\* beta (lines 17-31)
Beta(kind, lp) ==
    LET delta_y    == DeltaY(kind, lp)
        lag_y      == LagY(lp)
        mean_delta == Mean(delta_y)
        mean_lag   == Mean(lag_y)
        covariance == CrossSum(delta_y, mean_delta, lag_y, mean_lag, Len(lag_y))
        variance   == CrossSum(lag_y, mean_lag, lag_y, mean_lag, Len(lag_y))
    IN  IF variance # Zero THEN RatDiv(covariance, variance) ELSE Zero

\* A half-life is float('inf'), a number of bars, or -ln 2 / ln x for a
\* fraction 0 < x < 1, which is kept as x.
Infinite == [k |-> "inf", x |-> Zero]

InBars(v) == [k |-> "bars", x |-> <<v, 1>>]

LogHalfLife(x) == [k |-> "log", x |-> x]

\* -ln 2 / ln x < bars exactly when x < 2^(-1/bars), an irrational number
\* that lies between these two fractions:
\*   71/72   < 2^(-1/50)  = 0.986232... < 72/73
\*   720/721 < 2^(-1/500) = 0.998614... < 721/722
HalfRootBelow(bars) == IF bars = 50 THEN <<71, 72>> ELSE <<720, 721>>

HalfRootAbove(bars) == IF bars = 50 THEN <<72, 73>> ELSE <<721, 722>>

\* h < bars and h > bars for bars 50 or 500
HalfLifeLess(h, bars) ==
    CASE h.k = "inf"  -> FALSE
      [] h.k = "bars" -> h.x[1] < bars
      [] h.k = "log"  -> RatLE(h.x, HalfRootBelow(bars))

HalfLifeGreater(h, bars) ==
    CASE h.k = "inf"  -> TRUE
      [] h.k = "bars" -> h.x[1] > bars
      [] h.k = "log"  -> RatLE(HalfRootAbove(bars), h.x)

\* is_mean_reverting compares the half-life with this number of bars.
MeanRevertingBars == 50

\* The half-life returned as it was computed.
HalfLifeUnclamped(h) == h

\* min(half_life, 500) (line 43)
ClampHalfLife(h) ==
    IF HalfLifeGreater(h, HalfLifeCeiling) THEN InBars(HalfLifeCeiling) ELSE h

\* calculate_half_life(prices, lookback) (lines 6-46), on the log-prices.
CalculateHalfLife(kind, s, lookback) ==
    LET beta == Beta(kind, Trailing(s, lookback))
        hl   == IF RatLT(beta, Zero) /\ RatLT(<<-1, 1>>, beta)
                THEN LogHalfLife(RatAdd(One, beta))
                ELSE Infinite
    IN  [raised            |-> FALSE,
         half_life         |-> ClampHalfLife(hl),
         beta              |-> beta,
         is_mean_reverting |-> RatLT(beta, Zero) /\ HalfLifeLess(hl, MeanRevertingBars)]

\* A call of calculate_zscore on a series of up to MaxSeries prices.
CallZscore ==
    /\ call = NoCall
    /\ \E len \in 0..MaxSeries :
         \E s \in [1..len -> Prices] :
           \E lookback \in ZscoreLookbacks :
             call' = [fn |-> "calculate_zscore", kind |-> "list", series |-> s,
                      lookback |-> lookback, out |-> CalculateZscore(s, lookback)]
    /\ UNCHANGED <<run_vars, kalman_vars, handler_vars>>

\* A call of calculate_half_life on a numpy array (or a list) or on a pandas
\* Series of up to MaxSeries prices, given by their logarithms.
CallHalfLife ==
    /\ call = NoCall
    /\ \E len \in 0..MaxSeries :
         \E s \in [1..len -> LogPrices] :
           \E lookback \in HalfLifeLookbacks :
             \E kind \in {"array", "Series"} :
               call' = [fn |-> "calculate_half_life", kind |-> kind, series |-> s,
                        lookback |-> lookback,
                        out |-> CalculateHalfLife(kind, s, lookback)]
    /\ UNCHANGED <<run_vars, kalman_vars, handler_vars>>

\* An indicator function called on its own: a behaviour is one call.
InitIndicators ==
    /\ Init
    /\ max_holding_bars = 2
    /\ use_half_life_filter
    /\ half_life_max = 50

NextIndicators == CallZscore \/ CallHalfLife

SpecIndicators == InitIndicators /\ [][NextIndicators]_vars

\* ------------------------------------------ indicators.py: KalmanFilter

\* The largest number of updates of one instance.
MaxUpdates == 3

\* The process_noise and measurement_noise an instance is constructed with,
\* and the observations it is updated with, as fractions.
ProcessNoises == {<<1, 2>>, <<1, 1>>}

MeasurementNoises == {<<1, 1>>, <<2, 1>>}

Observations == {<<1, 1>>, <<2, 1>>}

\* self.estimate: None or a number
None == [none |-> TRUE, val |-> Zero]

Some(x) == [none |-> FALSE, val |-> x]

\* KalmanFilter.__init__ (lines 49-53)
NewFilter(process_noise, measurement_noise) ==
    [made      |-> TRUE,
     Q         |-> process_noise,
     R         |-> measurement_noise,
     estimate  |-> None,
     error_cov |-> One]

\* update() with a first call that takes 0 for the estimate it lacks and
\* goes through the gain step.
UpdateFromZero(f, observation) ==
    LET predicted_estimate  == IF f.estimate.none THEN Zero ELSE f.estimate.val
        predicted_error_cov == RatAdd(f.error_cov, f.Q)
        kalman_gain         == RatDiv(predicted_error_cov,
                                      RatAdd(predicted_error_cov, f.R))
    IN  [f EXCEPT !.estimate  = Some(RatAdd(predicted_estimate,
                                        RatMul(kalman_gain,
                                               RatSub(observation, predicted_estimate)))),
                  !.error_cov = RatMul(RatSub(One, kalman_gain), predicted_error_cov)]

\* update() whose later calls keep the predicted error covariance as the new
\* one, without the (1 - gain) factor.
UpdateKeepPredicted(f, observation) ==
    IF f.estimate.none
    THEN [f EXCEPT !.estimate = Some(observation)]
    ELSE LET predicted_estimate  == f.estimate.val
             predicted_error_cov == RatAdd(f.error_cov, f.Q)
             kalman_gain         == RatDiv(predicted_error_cov,
                                           RatAdd(predicted_error_cov, f.R))
         IN  [f EXCEPT !.estimate  = Some(RatAdd(predicted_estimate,
                                             RatMul(kalman_gain,
                                                    RatSub(observation, predicted_estimate)))),
                       !.error_cov = predicted_error_cov]

\* KalmanFilter.update (lines 55-68): the instance after the call.  The call
\* returns the new self.estimate.
UpdateFilter(f, observation) ==
    IF f.estimate.none
    THEN [f EXCEPT !.estimate = Some(observation)]
    ELSE LET predicted_estimate  == f.estimate.val
             predicted_error_cov == RatAdd(f.error_cov, f.Q)
             kalman_gain         == RatDiv(predicted_error_cov,
                                           RatAdd(predicted_error_cov, f.R))
         IN  [f EXCEPT !.estimate  = Some(RatAdd(predicted_estimate,
                                             RatMul(kalman_gain,
                                                    RatSub(observation, predicted_estimate)))),
                       !.error_cov = RatMul(RatSub(One, kalman_gain), predicted_error_cov)]

\* The instances after update() on instance k, with estimate and error_cov
\* attributes of the class, shared by the constructed instances.
InstancesAfterUpdateShared(fs, k, observation) ==
    LET g == UpdateFilter(fs[k], observation)
    IN  [j \in DOMAIN fs |->
            IF fs[j].made
            THEN [fs[j] EXCEPT !.estimate = g.estimate, !.error_cov = g.error_cov]
            ELSE fs[j]]

\* The instances after update() on instance k: estimate and error_cov are
\* attributes of the instance (self.estimate, self.error_cov).
InstancesAfterUpdate(fs, k, observation) ==
    [fs EXCEPT ![k] = UpdateFilter(fs[k], observation)]

\* KalmanFilter(process_noise, measurement_noise)
Construct ==
    /\ \E k \in Filters :
         /\ ~filters[k].made
         /\ \E q \in ProcessNoises :
              \E r \in MeasurementNoises :
                filters' = [filters EXCEPT ![k] = NewFilter(q, r)]
    /\ UNCHANGED <<run_vars, call, observed, returned, handler_vars>>

\* update(observation) on one of the instances
Update ==
    /\ \E k \in Filters :
         /\ filters[k].made
         /\ Len(observed[k]) < MaxUpdates
         /\ \E observation \in Observations :
              /\ filters' = InstancesAfterUpdate(filters, k, observation)
              /\ observed' = [observed EXCEPT ![k] = Append(@, observation)]
              /\ returned' = [filter |-> k, value |-> filters'[k].estimate.val]
    /\ UNCHANGED <<run_vars, call, handler_vars>>

\* KalmanFilter instances constructed and updated in any order.
NextKalman == Construct \/ Update

SpecKalman == InitIndicators /\ [][NextKalman]_vars

\* ---------------------------------------------------------- lambda_handler

\* What d.items[key] is when the dict d has no such key.
Missing == "<missing>"

\* A value of the event under one of its keys: the key is absent, its value
\* is null, or it is a dict; items gives the value of each key the code reads.
Absent(items) == [kind |-> "absent", items |-> items]

Null(items) == [kind |-> "null", items |-> items]

Dict(items) == [kind |-> "dict", items |-> items]

\* The dicts without a key.
NoPath == [action |-> Missing]

NoParams == [ticker |-> Missing, lookback |-> Missing, max_lag |-> Missing]

NoHeaders == [h \in {"x-api-key", "X-API-Key"} |-> Missing]

NoIdentity == [sourceIp |-> Missing]

NoContext == [identity |-> Absent(NoIdentity)]

\* The events of the model, key by key.
RoutedActions == {"health", "zscore", "halflife", "acf", "all"}

PathParameters ==
    {Absent(NoPath), Null(NoPath), Dict(NoPath)}
        \cup {Dict([action |-> a]) : a \in RoutedActions \cup {"backtest"}}

QueryStringParameters ==
    {Absent(NoParams), Null(NoParams), Dict(NoParams)}
        \cup {Dict([NoParams EXCEPT !.ticker = t]) : t \in {"", "SPY", "unknown"}}
        \cup {Dict([NoParams EXCEPT !.ticker = "SPY", !.lookback = l]) : l \in {"20", "abc"}}
        \cup {Dict([NoParams EXCEPT !.ticker = "SPY", !.max_lag = "abc"])}

ApiKeys == {"", "secret"}

HeaderValues == {Missing, "", "secret", "wrong"}

Headers ==
    {Absent(NoHeaders), Null(NoHeaders)}
        \cup {Dict(h) : h \in [{"x-api-key", "X-API-Key"} -> HeaderValues]}

RequestContexts ==
    {Absent(NoContext), Null(NoContext), Dict(NoContext),
     Dict([identity |-> Null(NoIdentity)]),
     Dict([identity |-> Dict([sourceIp |-> "10.0.0.1"])])}

Events ==
    [invoked               : {TRUE},
     pathParameters        : PathParameters,
     queryStringParameters : QueryStringParameters,
     headers               : Headers,
     requestContext        : RequestContexts]

\* What fetch_ohlcv does when it is called, and what the indicator functions
\* and the rounding of their results do when they are.
FetchOutcomes == {"raises", "empty", "data"}

ComputeOutcomes == {"raises", "ok"}

\* The strings int() accepts.
IntLiterals == {"20"}

\* v.get(key, {}) of the value v the parent holds under key
GetOrEmpty(v) == IF v.kind = "absent" THEN Dict(v.items) ELSE v

\* v or {}
OrEmpty(v, empty) == IF v.kind = "null" THEN Dict(empty) ELSE v

\* d.get(key, default)
DictGet(d, key, default) ==
    IF d.items[key] = Missing THEN default ELSE d.items[key]

\* response(status_code, body) (lines 168-177); the body is kept as the
\* dict that json.dumps is given.
response(status_code, body) ==
    [statusCode |-> status_code, body |-> body]

\* How a call ends: with the value it returns or with the exception it
\* raises, after fetch_ohlcv was called or not, and an indicator function
\* was called or not.
Returned(value, fetched, computed) ==
    [kind |-> "returned", response |-> value, fetched |-> fetched, computed |-> computed]

Raised(error, fetched, computed) ==
    [kind |-> "raised", error |-> error, fetched |-> fetched, computed |-> computed]

\* The common part of get_zscore, get_halflife, get_acf and get_all: the
\* fetch, the 404 on an empty frame, the indicators and the 200.
FetchAndCompute(ticker, fetch, compute, keys) ==
    IF fetch = "raises"
    THEN Raised("fetch_ohlcv", TRUE, FALSE)
    ELSE IF fetch = "empty"
    THEN Returned(response(404, [error |-> "No data found", ticker |-> ticker]),
                  TRUE, FALSE)
    ELSE IF compute = "raises"
    THEN Raised("indicator", TRUE, TRUE)
    ELSE Returned(response(200, [ticker |-> ticker, keys |-> keys]), TRUE, TRUE)

\* int(params.get(key, default)) raises ValueError
IntRaises(params, key) ==
    /\ params.items[key] # Missing
    /\ params.items[key] \notin IntLiterals

\* get_zscore (lines 98-111)
get_zscore(ticker, params, fetch, compute) ==
    IF IntRaises(params, "lookback")
    THEN Raised("ValueError", FALSE, FALSE)
    ELSE FetchAndCompute(ticker, fetch, compute, {"zscore", "signal"})

\* get_halflife (lines 114-127)
get_halflife(ticker, params, fetch, compute) ==
    IF IntRaises(params, "lookback")
    THEN Raised("ValueError", FALSE, FALSE)
    ELSE FetchAndCompute(ticker, fetch, compute, {"half_life", "is_mean_reverting"})

\* get_acf (lines 130-143)
get_acf(ticker, params, fetch, compute) ==
    IF IntRaises(params, "max_lag")
    THEN Raised("ValueError", FALSE, FALSE)
    ELSE FetchAndCompute(ticker, fetch, compute, {"acf_lag1", "is_mean_reverting"})

\* get_all (lines 146-165)
get_all(ticker, params, fetch, compute) ==
    FetchAndCompute(ticker, fetch, compute, {"zscore", "signal", "half_life", "acf"})

\* The routing on action (lines 64-76 and, in package/, lines 33-45).
Route(action, ticker, params, fetch, compute) ==
    IF action = "health"
    THEN Returned(response(200, [status |-> "ok"]), FALSE, FALSE)
    ELSE IF action = "zscore"
    THEN get_zscore(ticker, params, fetch, compute)
    ELSE IF action = "halflife"
    THEN get_halflife(ticker, params, fetch, compute)
    ELSE IF action = "acf"
    THEN get_acf(ticker, params, fetch, compute)
    ELSE IF action = "all"
    THEN get_all(ticker, params, fetch, compute)
    ELSE Returned(response(404, [error |-> "Unknown action", action |-> action]),
                  FALSE, FALSE)

\* headers.get('x-api-key') or headers.get('X-API-Key', '') (line 52)
ProvidedKey(headers) ==
    LET lower == headers.items["x-api-key"]
    IN  IF lower # Missing /\ lower # ""
        THEN lower
        ELSE DictGet(headers, "X-API-Key", "")

\* The body of the try statement of lambda_handler.py (lines 49-87).
Authenticated(action, ticker, params, headers, key, fetch, compute) ==
    IF action # "health" /\ key # "" /\ ProvidedKey(headers) # key
    THEN Returned(response(401, [error |-> "Unauthorized - Invalid API key"]),
                  FALSE, FALSE)
    ELSE IF ticker = "" \/ ticker = "unknown"
    THEN Returned(response(400, [error |-> "ticker parameter is required"]),
                  FALSE, FALSE)
    ELSE Route(action, ticker, params, fetch, compute)

\* except Exception as e: return response(500, {"error": str(e)})
Except(outcome) ==
    IF outcome.kind = "raised"
    THEN Returned(response(500, [error |-> outcome.error]),
                  outcome.fetched, outcome.computed)
    ELSE outcome

\* lambda_handler of lambda_handler.py (lines 24-95).  The reads of the
\* event and the request_received log line (lines 32-47) come before the try
\* statement: path.get on a null pathParameters, and the .get chain on a null
\* requestContext or a null identity, raise AttributeError outside it.
lambda_handler(ev, key, fetch, compute) ==
    LET path     == GetOrEmpty(ev.pathParameters)
        params   == OrEmpty(GetOrEmpty(ev.queryStringParameters), NoParams)
        headers  == OrEmpty(GetOrEmpty(ev.headers), NoHeaders)
        context  == GetOrEmpty(ev.requestContext)
    IN  IF path.kind = "null"
        THEN Raised("AttributeError", FALSE, FALSE)
        ELSE IF context.kind = "null"
        THEN Raised("AttributeError", FALSE, FALSE)
        ELSE IF GetOrEmpty(context.items.identity).kind = "null"
        THEN Raised("AttributeError", FALSE, FALSE)
        ELSE Except(Authenticated(DictGet(path, "action", "all"),
                                  DictGet(params, "ticker", "unknown"),
                                  params, headers, key, fetch, compute))

\* lambda_handler of package/lambda_handler.py (lines 12-48): no API key, and
\* the reads of the event are inside the try statement.
package_lambda_handler(ev, fetch, compute) ==
    LET path   == GetOrEmpty(ev.pathParameters)
        params == OrEmpty(GetOrEmpty(ev.queryStringParameters), NoParams)
    IN  Except(IF path.kind = "null"
               THEN Raised("AttributeError", FALSE, FALSE)
               ELSE IF DictGet(params, "ticker", "") = ""
               THEN Returned(response(400, [error |-> "ticker parameter is required"]),
                             FALSE, FALSE)
               ELSE Route(DictGet(path, "action", "all"), DictGet(params, "ticker", ""),
                          params, fetch, compute))

\* health() of the Flask app (api.py, lines 22-24): no argument is read.
health == response(200, [status |-> "ok"])

HandlerModules == {"lambda_handler", "package.lambda_handler"}

\* The import of the handler module by the Lambda runtime:
\* API_KEY = os.environ.get('API_KEY', '') (lambda_handler.py, line 21).
LoadModule ==
    /\ handler_module = NotLoaded
    /\ \E m \in HandlerModules :
         \E key \in ApiKeys :
           /\ handler_module' = m
           /\ API_KEY' = IF m = "lambda_handler" THEN key ELSE ""
    /\ UNCHANGED <<run_vars, call, kalman_vars, event, answer>>

\* One invocation of lambda_handler(event, context) of the loaded module.
Invoke ==
    /\ handler_module # NotLoaded
    /\ event = NoEvent
    /\ \E ev \in Events :
         \E fetch \in FetchOutcomes :
           \E compute \in ComputeOutcomes :
             /\ event' = ev
             /\ answer' = IF handler_module = "lambda_handler"
                          THEN lambda_handler(ev, API_KEY, fetch, compute)
                          ELSE package_lambda_handler(ev, fetch, compute)
    /\ UNCHANGED <<run_vars, call, kalman_vars, handler_module, API_KEY>>

NextHandler == LoadModule \/ Invoke

SpecHandler == InitIndicators /\ [][NextHandler]_vars

\* ------------------------------------------------------------------ claims

\* What a recorded trade t says about its exit bar, read off the record and
\* the closes: the z-score of the exit bar and the move of the price in the
\* trade's favour, in integers.
ClosedInLoop(t) == t.exit_reason # "End of data"

FavourableMove(t) ==
    IF t.position = "LONG"
    THEN t.exit_price - t.entry_price
    ELSE t.entry_price - t.exit_price

ZeroCrossAt(t) ==
    \/ t.position = "LONG" /\ ZGe0(ZAt(prices, t.exit_date))
    \/ t.position = "SHORT" /\ ZLe0(ZAt(prices, t.exit_date))

StopLossAt(t) ==
    FavourableMove(t) * stop_loss_pct[2] <= -(stop_loss_pct[1] * t.entry_price)

TakeProfitAt(t) ==
    FavourableMove(t) * take_profit_pct[2] >= take_profit_pct[1] * t.entry_price

MaxHoldingAt(t) == t.exit_date - t.entry_date >= max_holding_bars

FirstTrueCondition(t) ==
    IF ZeroCrossAt(t) THEN "Z crossed zero"
    ELSE IF StopLossAt(t) THEN "Stop loss"
    ELSE IF TakeProfitAt(t) THEN "Take profit"
    ELSE IF MaxHoldingAt(t) THEN "Max holding time"
    ELSE "no condition holds"

BeyondThreshold(z) == ZGt(z, zscore_threshold) \/ ZLtNeg(z, zscore_threshold)

\* C2: a bar that closes a position ends FLAT and makes no entry, and every
\* entry after the first is on a bar after the exit bar of the trade before it.
C2_NoEntryOnExitBar ==
    [][ /\ (pc = "loop" /\ Len(trades') > Len(trades) /\ pc' = "loop")
            => (position' = "FLAT" /\ entries' = entries /\ i' = i + 1)
        /\ \A k \in 2..Len(entries') :
               entries'[k].bar > trades'[k - 1].exit_date ]_vars

\* C2, witness: the loop has just closed a trade on a bar whose z-score is
\* beyond the entry threshold with the regime filter passing, and is FLAT.
C2_Witness ==
    /\ pc = "loop"
    /\ regime_ok
    /\ position = "FLAT"
    /\ trades # <<>>
    /\ Last(trades).exit_date = i - 1
    /\ BeyondThreshold(ZAt(prices, i - 1))

EndOfDataTrades == {k \in 1..Len(trades) : trades[k].exit_reason = "End of data"}

\* What C3 says of the trade log and of the forced close, but for the
\* terminal state: as many trades as entries once the run is over (one less
\* while a position is open), trade k closes entry k, and an 'End of data'
\* trade is the last of the log, alone, and exits at the last bar's close.
TradesMatchEntries ==
    /\ Len(entries) - Len(trades) =
           IF pc \in {"init", "loop"} /\ position # "FLAT" THEN 1 ELSE 0
    /\ \A k \in 1..Len(trades) :
           /\ trades[k].entry_date = entries[k].bar
           /\ trades[k].position = entries[k].side
    /\ \A k \in EndOfDataTrades :
           /\ k = Len(trades)
           /\ pc \in {"results", "done"}
           /\ trades[k].exit_date = n - 1
           /\ trades[k].exit_price = PriceAt(prices, n - 1)

C4_ExitAfterEntry ==
    \A k \in 1..Len(trades) :
        /\ trades[k].exit_date > trades[k].entry_date
        /\ trades[k].bars_held >= 1

\* C5: an entry is made only from FLAT, with the regime filter passing, on a
\* bar with a defined z-score, LONG exactly when z < -zscore_threshold and
\* SHORT exactly when z > zscore_threshold; a FLAT bar with |z| within the
\* threshold stays FLAT; an open position only ever goes back to FLAT; at most
\* one entry is unclosed; a trade records the side that was entered.
C5_SinglePositionEntry ==
    [][ (pc = "loop" /\ pc' = "loop") =>
          LET z == ZAt(prices', i)
          IN  /\ (position' # position /\ position' # "FLAT") =>
                    /\ position = "FLAT"
                    /\ regime_ok
                    /\ ~IsNaN(z)
                    /\ position' = "LONG" <=> ZLtNeg(z, zscore_threshold)
                    /\ position' = "SHORT" <=> ZGt(z, zscore_threshold)
                    /\ Last(entries').side = position'
                    /\ Len(entries') = Len(entries) + 1
              /\ (position = "FLAT" /\ ~BeyondThreshold(z)) => position' = "FLAT"
              /\ position # "FLAT" => position' \in {position, "FLAT"}
              /\ Len(entries') - Len(trades') \in {0, 1}
              /\ Len(trades') > Len(trades) =>
                    /\ Last(trades').position = position
                    /\ Last(trades').position = Last(entries).side ]_vars

\* C5, witness: a position of one side has been closed and a position of the
\* other side is open.
C5_Witness ==
    /\ pc = "loop"
    /\ trades # <<>>
    /\ position # "FLAT"
    /\ Last(trades).position # position

Started == pc \in {"loop", "results", "done"}

SimulatedBars == IF n > start_bar THEN start_bar..(n - 1) ELSE {}

RegimeBlocked == use_half_life_filter /\ ~(half_life < half_life_max)

\* C6: the regime decision is taken before the loop and no step after it
\* changes it (nor the half-life or the configuration it was taken from);
\* with the filter on and the half-life not below half_life_max no entry is
\* ever made and run() returns zero trades; with the filter off the decision
\* is to trade, whatever the half-life and half_life_max are.
C6_RegimeDecidedOnce ==
    [][ /\ pc # "init" =>
              (regime_ok' = regime_ok /\ half_life' = half_life /\ cfg' = cfg)
        /\ Started' =>
              /\ RegimeBlocked' =>
                    /\ ~regime_ok'
                    /\ entries' = <<>>
                    /\ trades' = <<>>
                    /\ position' = "FLAT"
                    /\ pc' = "done" => (result'.total_trades = 0 /\ result'.trades = <<>>)
              /\ ~use_half_life_filter' => regime_ok' ]_vars

\* C6, witness: run() has returned zero trades, with the filter on and the
\* half-life not below half_life_max, for a series with a simulated bar whose
\* z-score is beyond the entry threshold.
C6_Witness ==
    /\ pc = "done"
    /\ RegimeBlocked
    /\ \E b \in SimulatedBars : BeyondThreshold(ZAt(prices, b))
    /\ result.total_trades = 0

\* C7: when run() finishes on a series with at least one simulated bar, the
\* list equity has one point per simulated bar.
C7_OnePointPerBar ==
    (pc = "done" /\ n > start_bar) => Len(equity) = Cardinality(SimulatedBars)

\* C8: the equity list starts at 1.0; a bar of the loop that closes a trade
\* appends the last equity value times (1 + pnl_pct) of that trade, and every
\* other bar leaves the last equity value as it is.
C8_EquityChangesOnlyOnExit ==
    [][ /\ Started' => equity'[1] = One
        /\ (pc = "loop" /\ pc' = "loop") =>
              IF Len(trades') > Len(trades)
              THEN LET f == Last(trades').pnl_pct
                       a == Last(equity)
                       b == Last(equity')
                   IN  /\ Len(equity') = Len(equity) + 1
                       /\ b[1] * a[2] * f[2] = a[1] * (f[2] + f[1]) * b[2]
              ELSE Last(equity') = Last(equity) ]_vars

\* C8, witness: the loop has closed two trades with a profit or a loss each.
C8_Witness ==
    /\ pc = "loop"
    /\ Len(trades) = 2
    /\ trades[1].pnl # 0
    /\ trades[2].pnl # 0
    /\ Last(equity) # One

\* C9: a bar whose z-score is undefined leaves the position, the entry price,
\* date and bar, the trade log and the entries as they are, and appends the
\* last equity value again.
C9_UndefinedBarSkipped ==
    [][ (pc = "loop" /\ pc' = "loop" /\ ZAt(prices', i).nan) =>
            /\ position' = position
            /\ entry_price' = entry_price
            /\ entry_date' = entry_date
            /\ entry_bar' = entry_bar
            /\ trades' = trades
            /\ entries' = entries
            /\ equity' = Append(equity, Last(equity)) ]_vars

\* C9, witness: the bar just simulated has an undefined z-score, and the
\* position open on it had reached max_holding_bars and is still open.
C9_Witness ==
    /\ pc = "loop"
    /\ i > start_bar
    /\ ZAt(prices, i - 1).nan
    /\ position # "FLAT"
    /\ (i - 1) - entry_bar >= max_holding_bars

\* C10: run() on a series of 1 to zscore_lookback + 10 bars returns no
\* BacktestResult.
C10_TooShortFails ==
    (1 <= n /\ n <= start_bar) => (pc # "done" /\ result = NoResult)

\* C11: run() on a series of zero bars raises before any step of the
\* simulation: nothing is returned, no bar is processed, the trade log and
\* the equity list are untouched; and a run that got past the fetch has at
\* least one bar.
C11_NoDataRaises ==
    /\ pc = "raised" =>
           /\ n = 0
           /\ result = NoResult
           /\ trades = <<>>
           /\ entries = <<>>
           /\ equity = <<>>
           /\ prices = <<>>
           /\ i = 0
           /\ position = "FLAT"
    /\ Started => n >= 1

\* C11, witness: run() has raised on the empty series.
C11_Witness == pc = "raised" /\ n = 0 /\ result = NoResult

\* C12: a call of an indicator function on a series shorter than its lookback
\* fails instead of returning a value.
C12_ShortSeriesFails ==
    (call.fn # "none" /\ Len(call.series) < call.lookback) => call.out.raised

\* What the model can say of -ln 2 / ln x against a number of bars: it is
\* below or above it (x is outside the two fractions around 2^(-1/bars)).
Decided(x, bars) == RatLE(x, HalfRootBelow(bars)) \/ RatLE(HalfRootAbove(bars), x)

StrictlyInside(beta) == RatLT(<<-1, 1>>, beta) /\ RatLT(beta, Zero)

LagVariance(c) ==
    LET lag_y == LagY(Trailing(c.series, c.lookback))
    IN  CrossSum(lag_y, Mean(lag_y), lag_y, Mean(lag_y), Len(lag_y))

\* C13: calculate_half_life returns and never returns a half-life above the
\* ceiling of 500; with beta not strictly inside (-1, 0) (beta is 0 when the
\* variance of the lagged log-prices is 0) the half-life returned is exactly
\* 500 and is_mean_reverting is false; is_mean_reverting is true exactly when
\* beta < 0 and the half-life is below 50.
C13_HalfLifeClamped ==
    call.fn = "calculate_half_life" =>
        LET o == call.out
        IN  /\ ~o.raised
            /\ ~HalfLifeGreater(o.half_life, HalfLifeCeiling)
            /\ LagVariance(call) = Zero => o.beta = Zero
            /\ ~StrictlyInside(o.beta) =>
                   (o.half_life = InBars(HalfLifeCeiling) /\ ~o.is_mean_reverting)
            /\ o.is_mean_reverting <=>
                   (RatLT(o.beta, Zero) /\ HalfLifeLess(o.half_life, MeanRevertingBars))
            /\ StrictlyInside(o.beta) =>
                   /\ Decided(RatAdd(One, o.beta), MeanRevertingBars)
                   /\ Decided(RatAdd(One, o.beta), HalfLifeCeiling)

\* C13, witness: a call on an array of three or more prices whose lagged
\* log-prices have zero variance returned beta 0, the ceiling and no mean
\* reversion.
C13_Witness ==
    /\ call.fn = "calculate_half_life"
    /\ call.kind = "array"
    /\ Len(call.series) >= 3
    /\ LagVariance(call) = Zero
    /\ call.out.beta = Zero
    /\ call.out.half_life = InBars(HalfLifeCeiling)
    /\ ~call.out.is_mean_reverting

\* C14 as stated: a trade log that is not empty and has no trade with a
\* P&L below 0 gives a profit_factor equal to the gross profit.
C14_Original ==
    (pc = "done" /\ trades # <<>> /\ \A k \in 1..Len(trades) : trades[k].pnl >= 0)
        => result.profit_factor = <<FieldSum(trades, "pnl", Len(trades)), 1>>

\* C14, amended: a trade log that is not empty and has only trades with a
\* P&L above 0 gives a profit_factor equal to the gross profit, the sum of
\* their P&L; a log with no trade below 0 and a break-even trade (P&L = 0,
\* which the code counts as losing) gives a profit_factor of 0.
C14_ProfitFactorNoLosers ==
    (pc = "done" /\ trades # <<>> /\ \A k \in 1..Len(trades) : trades[k].pnl >= 0)
        => result.profit_factor =
               IF \A k \in 1..Len(trades) : trades[k].pnl > 0
               THEN <<FieldSum(trades, "pnl", Len(trades)), 1>>
               ELSE Zero

\* C14, witness: run() has returned a log of two winning trades and a
\* profit_factor equal to the sum of their P&L.
C14_Witness ==
    /\ pc = "done"
    /\ Len(trades) = 2
    /\ trades[1].pnl > 0
    /\ trades[2].pnl > 0
    /\ result.profit_factor = <<trades[1].pnl + trades[2].pnl, 1>>

WinningCount == Cardinality({k \in 1..Len(trades) : trades[k].pnl > 0})

\* C15: a run that got its bars returns; when it recorded no trade every
\* count and statistic of the BacktestResult is 0 and its trade list is
\* empty, whatever the equity list is; otherwise win_rate is the number of
\* trades with a P&L above 0 over the number of trades.
C15_NoTradesZeroResult ==
    /\ n >= 1 => pc # "raised"
    /\ pc = "done" =>
           IF trades = <<>>
           THEN /\ result.total_trades = 0
                /\ result.winning_trades = 0
                /\ result.losing_trades = 0
                /\ result.win_rate = Zero
                /\ result.total_pnl = 0
                /\ result.total_pnl_pct = Zero
                /\ result.avg_pnl_per_trade = Zero
                /\ result.max_drawdown = Zero
                /\ result.sharpe_ratio.sgn = 0
                /\ result.sharpe_ratio.sq = Zero
                /\ result.profit_factor = Zero
                /\ result.avg_bars_held = Zero
                /\ result.trades = <<>>
           ELSE /\ result.total_trades = Len(trades)
                /\ result.win_rate[1] * Len(trades) = WinningCount * result.win_rate[2]

\* C15, witness: run() has returned the zeroed result for a series with
\* simulated bars, entries allowed and no bar beyond the entry threshold.
C15_Witness ==
    /\ pc = "done"
    /\ regime_ok
    /\ Cardinality(SimulatedBars) >= 2
    /\ \E b \in SimulatedBars : ~ZAt(prices, b).nan
    /\ trades = <<>>
    /\ result.total_trades = 0
    /\ result.profit_factor = Zero

\* Whether one of the four exit conditions holds on bar b for a position of
\* the given side entered on bar ebar at price eprice, read off the closes.
AnyExitConditionAt(side, eprice, ebar, b) ==
    LET z    == ZAt(prices, b)
        move == IF side = "LONG" THEN PriceAt(prices, b) - eprice
                                 ELSE eprice - PriceAt(prices, b)
    IN  \/ side = "LONG" /\ ZGe0(z)
        \/ side = "SHORT" /\ ZLe0(z)
        \/ move * stop_loss_pct[2] <= -(stop_loss_pct[1] * eprice)
        \/ move * take_profit_pct[2] >= take_profit_pct[1] * eprice
        \/ b - ebar >= max_holding_bars

\* No bar of from..to with a defined z-score has an exit condition holding.
HeldThrough(side, eprice, ebar, from, to) ==
    \A b \in from..to :
        ~ZAt(prices, b).nan => ~AnyExitConditionAt(side, eprice, ebar, b)

\* C16: a position is closed at the first bar after its entry bar that has a
\* defined z-score and an exit condition holding: no such bar lies strictly
\* between the entry and the exit of a recorded trade, nor between the entry
\* of the open position and the bar the loop has reached, and a trade closed
\* in the loop exits on such a bar.
C16_ClosedAtFirstExitBar ==
    /\ \A k \in 1..Len(trades) :
           LET t == trades[k]
           IN  /\ HeldThrough(t.position, t.entry_price, t.entry_date,
                               t.entry_date + 1, t.exit_date - 1)
               /\ ClosedInLoop(t) =>
                      /\ ~ZAt(prices, t.exit_date).nan
                      /\ AnyExitConditionAt(t.position, t.entry_price, t.entry_date,
                                            t.exit_date)
    /\ (pc = "loop" /\ position # "FLAT") =>
           HeldThrough(position, entry_price, entry_bar, entry_bar + 1, i - 1)

\* C16, witness: a SHORT was held over a bar with a defined z-score and then
\* closed by the stop loss on a bar whose z-score is still above 0.
C16_Witness ==
    \E k \in 1..Len(trades) :
        /\ trades[k].position = "SHORT"
        /\ trades[k].exit_reason = "Stop loss"
        /\ trades[k].bars_held >= 2
        /\ \E b \in (trades[k].entry_date + 1)..(trades[k].exit_date - 1) :
               ~ZAt(prices, b).nan
        /\ ZAt(prices, trades[k].exit_date).sgn = 1

\* The default regime settings of __init__: filter on, half_life_max 50.
DefaultRegime == use_half_life_filter /\ half_life_max = 50

\* The series of C17 on the model's short window: the z-score of the first
\* simulated bar is above the threshold, on the next bar it is above 0 with
\* neither the stop loss nor the take profit of a SHORT from the first bar's
\* close reached, on the bar after it is at or below 0, and that is the last
\* bar.
ShortThenZeroCross ==
    /\ n = start_bar + 3
    /\ Len(prices) = zscore_lookback + 2
    /\ ZGt(ZAt(prices, start_bar), zscore_threshold)
    /\ ZAt(prices, start_bar + 1).sgn = 1
    /\ LET move == PriceAt(prices, start_bar) - PriceAt(prices, start_bar + 1)
           e    == PriceAt(prices, start_bar)
       IN  /\ move * stop_loss_pct[2] > -(stop_loss_pct[1] * e)
           /\ move * take_profit_pct[2] < take_profit_pct[1] * e
    /\ ZLe0(ZAt(prices, start_bar + 2))

\* C17: the bars_held of every trade is its exit bar minus its entry bar;
\* with the default regime settings and a max_holding_bars the hold does not
\* exceed, the series above yields exactly one trade: SHORT, 'Z crossed
\* zero', held from the first simulated bar to the zero cross.
C17_BarsHeldScenario ==
    /\ \A k \in 1..Len(trades) :
           trades[k].bars_held = trades[k].exit_date - trades[k].entry_date
    /\ (pc = "done" /\ DefaultRegime /\ max_holding_bars >= 2 /\ ShortThenZeroCross) =>
           /\ Len(trades) = 1
           /\ trades[1].position = "SHORT"
           /\ trades[1].exit_reason = "Z crossed zero"
           /\ trades[1].bars_held = 2

\* C18: a second run of the same instance on the same series ends as the
\* first did, and when it returns, its BacktestResult (the trade log and
\* every statistic), the trade log of the instance and the equity list are
\* those of the first run; while it is under way the trade log holds trades
\* of the second run only.
C18_SecondRunIdentical ==
    first # NoFirst =>
        /\ pc \in {"done", "raised"} => pc = first.outcome
        /\ pc = "done" =>
               /\ result = first.result
               /\ trades = first.trades
               /\ equity = first.equity
               /\ prices = first.prices
        /\ pc \in {"loop", "results"} =>
               /\ Len(trades) <= Len(first.trades)
               /\ trades = SubSeq(first.trades, 1, Len(trades))

\* C18, witness: the second run has returned, and the log of both runs has a
\* trade closed in the loop and a forced close.
C18_Witness ==
    /\ first # NoFirst
    /\ pc = "done"
    /\ Len(first.trades) = 2
    /\ first.trades[2].exit_reason = "End of data"
    /\ result = first.result

\* The instance that __init__(q, r) and then update() with each of the
\* first k observations of obs in turn give, computed on its own.
RECURSIVE FilterAlone(_, _, _, _)
FilterAlone(q, r, obs, k) ==
    IF k = 0
    THEN NewFilter(q, r)
    ELSE UpdateFilter(FilterAlone(q, r, obs, k - 1), obs[k])

\* C19: update() on one instance leaves the estimate and the error_cov of
\* every other instance as they are, and after any interleaving of the
\* updates each instance is what its own Q, R and observations alone give.
C19_InstancesIndependent ==
    [][ /\ \A k \in Filters :
              observed'[k] = observed[k] =>
                  (filters[k].made => filters'[k] = filters[k])
        /\ \A k \in Filters :
              filters'[k].made =>
                  filters'[k] = FilterAlone(filters'[k].Q, filters'[k].R,
                                            observed'[k], Len(observed'[k])) ]_vars

\* C19, witness: both instances have been updated twice, in turns, with
\* different observations, and their estimates differ.
C19_Witness ==
    /\ filters[1].made /\ filters[2].made
    /\ Len(observed[1]) = 2 /\ Len(observed[2]) = 2
    /\ observed[1] # observed[2]
    /\ filters[1].estimate # filters[2].estimate
    /\ returned.filter = 2

\* The observations of instance k so far are all the same value.
ConstantFeed(k) ==
    /\ observed[k] # <<>>
    /\ \A j \in 1..Len(observed[k]) : observed[k][j] = observed[k][1]

\* C20: an instance that has been fed the same value c on every update has
\* the estimate c, after the first update and after every later one, whatever
\* its Q and R are.
C20_ConstantFeedConverges ==
    \A k \in Filters :
        ConstantFeed(k) =>
            /\ ~filters[k].estimate.none
            /\ filters[k].estimate.val = observed[k][1]
            /\ returned.filter = k => returned.value = observed[k][1]

\* C20, witness: an instance has been fed the same value three times and
\* its estimate is that value, its error_cov having moved away from 1.
C20_Witness ==
    \E k \in Filters :
        /\ ConstantFeed(k)
        /\ Len(observed[k]) >= 3
        /\ filters[k].estimate.val = observed[k][1]
        /\ filters[k].error_cov # One

\* The update of instance k in this step, if the step is one.
UpdatedHere(k) == observed'[k] # observed[k]

\* C21: the first update(obs) of an instance sets the estimate to obs, leaves
\* the error covariance at 1 and returns obs; every later update, with
\* p = error_cov + Q the predicted covariance, moves the estimate to the
\* weighted mean (R * estimate + p * obs) / (p + R), which is
\* estimate + gain * (obs - estimate) for gain = p / (p + R), leaves the
\* covariance p * R / (p + R), which is (1 - gain) * p, and returns the new
\* estimate.
C21_FirstUpdateThenGain ==
    [][ \A k \in Filters :
          UpdatedHere(k) =>
            LET f   == filters[k]
                g   == filters'[k]
                obs == Last(observed'[k])
                p   == RatAdd(f.error_cov, f.Q)
            IN  /\ ~g.estimate.none
                /\ returned' = [filter |-> k, value |-> g.estimate.val]
                /\ IF observed[k] = <<>>
                   THEN /\ f.estimate.none
                        /\ g.estimate.val = obs
                        /\ g.error_cov = One
                        /\ f.error_cov = One
                   ELSE /\ RatMul(g.estimate.val, RatAdd(p, f.R))
                             = RatAdd(RatMul(f.R, f.estimate.val), RatMul(p, obs))
                        /\ RatMul(g.error_cov, RatAdd(p, f.R)) = RatMul(p, f.R) ]_vars

\* C21, witness: an instance has had a first update and then one with another
\* observation, which moved its estimate strictly between the two and its
\* error covariance away from 1.
C21_Witness ==
    \E k \in Filters :
        /\ Len(observed[k]) = 2
        /\ observed[k][1] = One
        /\ observed[k][2] # One
        /\ returned.filter = k
        /\ RatLT(One, filters[k].estimate.val)
        /\ RatLT(filters[k].estimate.val, observed[k][2])
        /\ filters[k].error_cov # One

\* C24: every trade in the trade log has bars_held <= max_holding_bars.
C24_HeldWithinMaximum ==
    \A k \in 1..Len(trades) : trades[k].bars_held <= max_holding_bars

\* 1.0 compounded by (1 + pnl_pct) of the first k trades of ts.
RECURSIVE Compounded(_, _)
Compounded(ts, k) ==
    IF k = 0
    THEN One
    ELSE RatMul(Compounded(ts, k - 1), RatAdd(One, ts[k].pnl_pct))

\* C25: when run() has returned, the last value of the equity curve is 1.0
\* multiplied by (1 + pnl_pct) of every trade of the returned trade log, the
\* forced 'End of data' trade included.
C25_EquityMatchesTradeLog ==
    pc = "done" => Last(equity) = Compounded(result.trades, Len(result.trades))

\* C26: every point of the equity curve is strictly positive.
C26_EquityPositive ==
    \A k \in 1..Len(equity) : RatLT(Zero, equity[k])

\* The trades of ts are in order of exit, and each is entered strictly after
\* the exit of the one before it.
Chronological(ts) ==
    \A k \in 1..(Len(ts) - 1) :
        /\ ts[k].exit_date < ts[k + 1].exit_date
        /\ ts[k].exit_date < ts[k + 1].entry_date

\* C27: the trade log, while run() builds it and in the BacktestResult it
\* returns, is in order of exit, and every trade is entered on a bar strictly
\* after the exit bar of the trade before it.
C27_TradeLogChronological ==
    /\ Chronological(trades)
    /\ pc = "done" => Chronological(result.trades)

\* C27, witness: run() has returned two trades, the second entered on the bar
\* right after the exit bar of the first and closed at the end of the data.
C27_Witness ==
    /\ pc = "done"
    /\ Len(result.trades) = 2
    /\ result.trades[2].entry_date = result.trades[1].exit_date + 1
    /\ result.trades[2].exit_date > result.trades[2].entry_date
    /\ result.trades[1].position # result.trades[2].position

\* The trades of the returned trade list with a P&L above 0, and the others.
Winners == {k \in 1..Len(result.trades) : result.trades[k].pnl > 0}

NotWinners == {k \in 1..Len(result.trades) : ~(result.trades[k].pnl > 0)}

\* The P&L of the trades of ts from the k-th on, added up.
RECURSIVE PnlFrom(_, _)
PnlFrom(ts, k) == IF k > Len(ts) THEN 0 ELSE ts[k].pnl + PnlFrom(ts, k + 1)

\* C28: in the BacktestResult run() returns, total_trades is the length of
\* the trade list, winning_trades is the number of its trades with P&L > 0,
\* losing_trades the number of all the others (break-even trades included),
\* the two add up to total_trades, and total_pnl is the sum of the trades'
\* P&L.
C28_CountsPartitionTrades ==
    pc = "done" =>
        /\ result.total_trades = Len(result.trades)
        /\ result.trades = trades
        /\ result.winning_trades = Cardinality(Winners)
        /\ result.losing_trades = Cardinality(NotWinners)
        /\ result.winning_trades + result.losing_trades = result.total_trades
        /\ result.total_pnl = PnlFrom(result.trades, 1)

\* C28, witness: run() has returned a winning trade and a break-even trade,
\* the break-even one counted as losing.
C28_Witness ==
    /\ pc = "done"
    /\ result.total_trades = 2
    /\ result.winning_trades = 1
    /\ result.losing_trades = 1
    /\ \E k \in 1..2 : result.trades[k].pnl = 0
    /\ result.total_pnl > 0

\* The action the handler reads from the event, when pathParameters is not
\* null: path.get('action', 'all').
ActionOf(ev) == DictGet(GetOrEmpty(ev.pathParameters), "action", "all")

\* Neither the x-api-key nor the X-API-Key header of the event is the key.
NoHeaderIs(ev, key) ==
    \A h \in {"x-api-key", "X-API-Key"} :
        OrEmpty(GetOrEmpty(ev.headers), NoHeaders).items[h] # key

\* C22: with lambda_handler.py loaded and an API key configured, a request
\* whose action is not 'health' and whose x-api-key / X-API-Key header is not
\* the configured key is answered with status 401, and neither fetch_ohlcv
\* nor an indicator function is called for it.
C22_UnauthorizedRejected ==
    ( /\ handler_module = "lambda_handler"
      /\ API_KEY # ""
      /\ event # NoEvent
      /\ event.pathParameters.kind # "null"
      /\ ActionOf(event) # "health"
      /\ NoHeaderIs(event, API_KEY) ) =>
        /\ answer.kind = "returned"
        /\ answer.response.statusCode = 401
        /\ ~answer.fetched
        /\ ~answer.computed

\* C23: a request whose action is 'health' is answered as the /health
\* endpoint of the Flask app answers, with status 200 and the body
\* {"status": "ok"}, whatever the API key, the headers and the query
\* parameters are.
C23_HealthAlwaysOk ==
    ( /\ event # NoEvent
      /\ event.pathParameters.kind = "dict"
      /\ ActionOf(event) = "health" ) =>
        /\ answer.kind = "returned"
        /\ answer.response = health

\* C29: every invocation of lambda_handler returns a response whose
\* statusCode is one of 200, 400, 401, 404, 500; no exception reaches the
\* caller.
C29_NoExceptionEscapes ==
    event # NoEvent =>
        /\ answer.kind = "returned"
        /\ answer.response.statusCode \in {200, 400, 401, 404, 500}

====
